---- MODULE Spec2Model ----
(***************************************************************************)
(* DubboServer (packages/dubbo/src/server/dubbo-server.ts): the retry      *)
(* driven listener bootstrap, the per-connection frame handler, the        *)
(* koa-compose middleware chain around the terminal handleRequest stage,   *)
(* the service routing table and the response status.                      *)
(*                                                                         *)
(* Every `await` of the source is a point where other callbacks may run,   *)
(* so a dispatch is a sequence of steps: one per stage entry, one per      *)
(* stage resumption, one for the settling of the composed chain and one    *)
(* for the write of the response.                                          *)
(***************************************************************************)
EXTENDS Integers, Sequences, FiniteSets, TLC

\* ------------------------------------------------------------- bounds

\* Spec: frames (heartbeats and requests) delivered over all connections, and
\* the length of the registered middleware list.
MaxFrames == 1
MaxMw == 1
\* DispatchSpec: requests dispatched, and the length of the middleware list.
MaxDispatches == 2
MaxChain == 2
\* RouteSpec: requests routed.
MaxRouted == 1
\* TrafficSpec: frames delivered over all connections, and the length of the
\* registered middleware list.
MaxTraffic == 2
MaxTrafficMw == 1
\* Attempts the retry policy grants before it reports exhaustion.
MaxRetry == 2

Conns == {"c1", "c2"}

\* ------------------------------------------------------------- values

\* JavaScript's undefined, null, and the status of a context nobody has set.
ABSENT == "undefined"
NULL == "null"
UNSET == "unset"

\* ResponseStatus
OK == "OK"
SERVICE_NOT_FOUND == "SERVICE_NOT_FOUND"
SERVER_ERROR == "SERVER_ERROR"

\* The frames the DecodeBuffer delivers: a heartbeat, or an encoded request.
HEARTBEAT == [kind |-> "heartbeat"]
RequestFrame(r) == [kind |-> "request", request |-> r]
isHeartBeat(data) == data.kind = "heartbeat"
decodeDubboRequest(data) == data.request

Bar == "com.foo.Bar"
Baz == "com.foo.Baz"

\* What a service method does when it is applied.
BarMethods == [hello |-> "greet", boom |-> "throws", raw |-> "nonHessian"]
HelloOnly == [hello |-> "greet"]

Service(i, g, v, m) == [dubboInterface |-> i, group |-> g, version |-> v, methods |-> m]

\* IDubboServerProps.services: the lists a server is constructed with.
BarDefault == Service(Bar, ABSENT, ABSENT, BarMethods)
BarV2 == Service(Bar, "v2", "1.0.0", HelloOnly)
ServiceLists == {<<BarDefault>>, <<BarV2>>, <<BarDefault, BarV2>>}

\* A decoded Request: methodName, args and the attachment's path, group, version.
Req(p, m, g, v, a) == [path |-> p, methodName |-> m, group |-> g, version |-> v, args |-> a]

AllRequests ==
  {Req(p, m, g, v, a) : p \in {Bar, Baz}, m \in {"hello", "boom", "raw", "nope"},
                        g \in {ABSENT, "", "v2"}, v \in {ABSENT, "0.0.0", "1.0.0"},
                        a \in {<<>>, <<"world">>}}

\* DispatchSpec: one request for each way a dispatch can go.
DispatchRequests ==
  { Req(Bar, "hello", ABSENT, ABSENT, <<"world">>),
    Req(Bar, "hello", ABSENT, "0.0.0", <<"world">>),
    Req(Bar, "hello", "v2", "1.0.0", <<>>),
    Req(Bar, "boom", "", "0.0.0", <<>>),
    Req(Bar, "raw", "", "0.0.0", <<"world">>),
    Req(Bar, "nope", "", "0.0.0", <<>>),
    Req(Baz, "hello", "", "0.0.0", <<"world">>) }

\* Spec: a request that is served, one whose method throws, one that is not found.
Requests ==
  { Req(Bar, "hello", ABSENT, "0.0.0", <<"world">>),
    Req(Bar, "hello", "v2", "1.0.0", <<"world">>),
    Req(Bar, "boom", "", "0.0.0", <<>>) }

Frames == {HEARTBEAT} \cup {RequestFrame(r) : r \in Requests}
\* TrafficSpec: a heartbeat, a request that is served and one whose method
\* throws (neither is found when only the v2 descriptor is registered).
TrafficFrames ==
  { HEARTBEAT,
    RequestFrame(Req(Bar, "hello", ABSENT, "0.0.0", <<"world">>)),
    RequestFrame(Req(Bar, "boom", "", "0.0.0", <<>>)) }
DispatchFrames == {RequestFrame(r) : r \in DispatchRequests}

\* Middleware<ResponseContext>: what a registered function does with (ctx, next).
\*   pass        runs, awaits next(), runs again
\*   throwBefore throws before it calls next()
\*   throwAfter  awaits next(), then throws
\*   noNext      returns without calling next()
\*   catch       try { await next() } catch (e) {}
MwKinds == {"pass", "throwBefore", "throwAfter", "noNext", "catch"}
CallsNext(k) == k \in {"pass", "throwAfter", "catch"}
\* The kinds registered in Spec.
ServerMwKinds == {"pass", "throwBefore"}
\* Arguments of use() that are not functions.
NonCallables == {"notAFunction"}

\* The values the model's functions throw and return, as strings.
MwError(i) == "middleware " \o ToString(i) \o " error"
AppError(m) == m \o " failed"
NotHessianError(p, m) == p \o "#" \o m \o " return value not hessian type"
NotFoundError(p, m, g, v) ==
  "Service not found with " \o p \o " and " \o m \o ", group:" \o g \o ", version:" \o v
NonHessianValue == "[Function]"
CtxRef(id) == "[ctx " \o ToString(id) \o "]"

VARIABLES
  services,      \* this.services
  serviceMap,    \* this.serviceMap: interface -> descriptor
  middlewares,   \* this.middlewares
  server,        \* this.server: none | listening | failed | closed
  listenPending, \* a listen() call is awaiting randomPort()
  retryNum,      \* Retry: attempts left
  retryTimer,    \* Retry: a retry is scheduled
  fatal,         \* the retry's end callback has thrown
  fails,         \* consecutive bind failures
  closeCalled,   \* close() has been called
  published,     \* calls made to the registry, in order
  useCall,       \* the last use() call: its argument and what it threw
  conn,          \* per connection: none | open | destroyed
  hb,            \* per connection: the HeartBeat's last activity timestamp
  wire,          \* per connection: the response frames written to the socket
  clock,         \* frames delivered so far
  delivered,     \* frame id -> the connection and kind of that frame
  inflight       \* frame id -> the dispatch of that frame

vars == <<services, serviceMap, middlewares, server, listenPending, retryNum,
          retryTimer, fatal, fails, closeCalled, published, useCall, conn, hb,
          wire, clock, delivered, inflight>>

bootVars == <<server, listenPending, retryNum, retryTimer, fatal, fails, closeCalled>>
connVars == <<conn, hb, wire, clock, delivered, inflight>>

\* ------------------------------------------------- routing and registry

\* registerServices, lines 202-203: service.group || '', service.version || '0.0.0'
Normalize(s) ==
  [s EXCEPT !.group = IF @ \in {ABSENT, ""} THEN "" ELSE @,
            !.version = IF @ \in {ABSENT, ""} THEN "0.0.0" ELSE @]

\* buildUrl: encodeURIComponent of the provider URL, of which the fields that
\* depend on the descriptor's interface, group and version are kept. The
\* encoding turns :// into %3A%2F%2F, ? into %3F, = into %3D and & into %26; the
\* names and versions of the model hold unreserved characters only.
buildUrl(s) ==
  "dubbo%3A%2F%2F" \o s.dubboInterface \o "%3Fgroup%3D" \o s.group
                   \o "%26version%3D" \o s.version

\* serviceMap.set for each service of the list, in order: a later one replaces.
RECURSIVE SetAll(_, _)
SetAll(map, list) ==
  IF list = <<>> THEN map
  ELSE LET s == Normalize(Head(list))
       IN SetAll((s.dubboInterface :> s) @@ map, Tail(list))

\* The one call registerServices makes to the registry.
Publication(list) ==
  [type |-> "provider",
   services |-> [i \in DOMAIN list |->
                   <<list[i].dubboInterface, buildUrl(Normalize(list[i]))>>]]

NoService == [dubboInterface |-> NULL]

\* matchService without its comparison of the versions.
matchServiceAnyVersion(map, request) ==
  LET path == request.path
      group == IF request.group = ABSENT THEN "" ELSE request.group
  IN IF \/ path \notin DOMAIN map
        \/ request.methodName \notin DOMAIN map[path].methods
        \/ map[path].group /= group
     THEN NoService
     ELSE map[path]

\* matchService without its comparison of the groups.
matchServiceAnyGroup(map, request) ==
  LET path == request.path
      version == request.version
  IN IF \/ path \notin DOMAIN map
        \/ request.methodName \notin DOMAIN map[path].methods
        \/ map[path].version /= version
     THEN NoService
     ELSE map[path]

\* matchService: the descriptor registered for the request, or NoService (null).
matchService(map, request) ==
  LET path == request.path
      group == IF request.group = ABSENT THEN "" ELSE request.group
      version == request.version
  IN IF \/ path \notin DOMAIN map
        \/ request.methodName \notin DOMAIN map[path].methods
        \/ map[path].group /= group
        \/ map[path].version /= version
     THEN NoService
     ELSE map[path]

\* ---------------------------------------------------------- bootstrap

\* Retry.start (the retry policy): exhausted -> end() throws; else a retry is scheduled.
RetryStart ==
  IF retryNum = 0
  THEN /\ fatal' = TRUE
       /\ UNCHANGED <<retryNum, retryTimer>>
  ELSE /\ retryTimer' = TRUE
       /\ retryNum' = retryNum - 1
       /\ UNCHANGED fatal

\* The listening callback resetting the retry and registering nothing.
ListenSuccessNoPublish ==
  /\ listenPending
  /\ listenPending' = FALSE
  /\ server' = "listening"
  /\ fails' = 0
  /\ retryNum' = MaxRetry
  /\ services' = [i \in DOMAIN services |-> Normalize(services[i])]
  /\ serviceMap' = SetAll(serviceMap, services)
  /\ UNCHANGED <<retryTimer, fatal, closeCalled, middlewares, useCall, published>>
  /\ UNCHANGED connVars

\* listen, lines 91-100: the port is chosen, the server binds, the listening
\* callback resets the retry and registers the services.
ListenSuccess ==
  /\ listenPending
  /\ listenPending' = FALSE
  /\ server' = "listening"
  /\ fails' = 0
  /\ retryNum' = MaxRetry
  /\ services' = [i \in DOMAIN services |-> Normalize(services[i])]
  /\ serviceMap' = SetAll(serviceMap, services)
  /\ published' = Append(published, Publication(services))
  /\ UNCHANGED <<retryTimer, fatal, closeCalled, middlewares, useCall>>
  /\ UNCHANGED connVars

\* The error handler logging the failure and leaving the retry alone.
ListenErrorNoRetry ==
  /\ listenPending
  /\ listenPending' = FALSE
  /\ server' = "failed"
  /\ fails' = fails + 1
  /\ UNCHANGED <<retryNum, retryTimer, fatal, closeCalled>>
  /\ UNCHANGED <<services, serviceMap, published, middlewares, useCall>>
  /\ UNCHANGED connVars

\* listen, lines 91-95 and 101-104: the bind fails, the error handler starts the retry.
ListenError ==
  /\ listenPending
  /\ listenPending' = FALSE
  /\ server' = "failed"
  /\ fails' = fails + 1
  /\ RetryStart
  /\ UNCHANGED <<closeCalled, services, serviceMap, published, middlewares, useCall>>
  /\ UNCHANGED connVars

\* The retry's timer fires: retry() is listen().
RetryFire ==
  /\ retryTimer
  /\ retryTimer' = FALSE
  /\ listenPending' = TRUE
  /\ UNCHANGED <<server, retryNum, fatal, fails, closeCalled>>
  /\ UNCHANGED <<services, serviceMap, published, middlewares, useCall>>
  /\ UNCHANGED connVars

\* close: this.server?.close(). net.Server.close stops the listener and leaves
\* the accepted sockets alone; on no server, or one not listening, nothing happens.
Close ==
  /\ server' = IF server = "listening" THEN "closed" ELSE server
  /\ closeCalled' = TRUE
  /\ UNCHANGED <<listenPending, retryNum, retryTimer, fatal, fails>>
  /\ UNCHANGED <<services, serviceMap, published, middlewares, useCall>>
  /\ UNCHANGED connVars

\* use without its typeof check.
UseUnchecked(fn) ==
  /\ middlewares' = Append(middlewares, fn)
  /\ useCall' = [fn |-> fn, threw |-> "none"]
  /\ UNCHANGED <<services, serviceMap, published>>
  /\ UNCHANGED bootVars
  /\ UNCHANGED connVars

\* use, lines 294-301
Use(fn) ==
  IF fn \notin MwKinds
  THEN /\ useCall' = [fn |-> fn, threw |-> "TypeError"]
       /\ UNCHANGED <<middlewares, services, serviceMap, published>>
       /\ UNCHANGED bootVars
       /\ UNCHANGED connVars
  ELSE /\ middlewares' = Append(middlewares, fn)
       /\ useCall' = [fn |-> fn, threw |-> "none"]
       /\ UNCHANGED <<services, serviceMap, published>>
       /\ UNCHANGED bootVars
       /\ UNCHANGED connVars

\* --------------------------------------------------------- connections

\* handleSocketRequest, lines 111-118: a socket is accepted, its HeartBeat created.
Accept(c) ==
  /\ server = "listening"
  /\ conn[c] = "none"
  /\ conn' = [conn EXCEPT ![c] = "open"]
  /\ hb' = [hb EXCEPT ![c] = clock]
  /\ UNCHANGED <<wire, clock, delivered, inflight>>
  /\ UNCHANGED <<services, serviceMap, published, middlewares, useCall>>
  /\ UNCHANGED bootVars

\* The HeartBeat's onTimeout, line 117: socket.destroy().
HeartbeatTimeout(c) ==
  /\ conn[c] = "open"
  /\ conn' = [conn EXCEPT ![c] = "destroyed"]
  /\ UNCHANGED <<hb, wire, clock, delivered, inflight>>
  /\ UNCHANGED <<services, serviceMap, published, middlewares, useCall>>
  /\ UNCHANGED bootVars

\* new ResponseContext(request)
NewContext == [status |-> UNSET, res |-> NULL, err |-> NULL]

\* invokeComposeChainRequest composing the terminal stage alone.
StartDispatchHandlerOnly(c, data) ==
  LET request == decodeDubboRequest(data)
      service == matchService(serviceMap, request)
      group == IF request.group = ABSENT THEN "" ELSE request.group
      d == [conn |-> c, request |-> request, chain |-> <<>>, pos |-> 0,
            pc |-> "write", exc |-> NULL, trace |-> <<>>, calls |-> <<>>,
            registered |-> Len(middlewares)]
  IN IF service = NoService
     THEN d @@ [NewContext EXCEPT
                  !.status = SERVICE_NOT_FOUND,
                  !.err = NotFoundError(request.path, request.methodName, group,
                                        request.version)]
     ELSE [d EXCEPT !.pos = 1, !.pc = "down"] @@ NewContext

\* invokeComposeChainRequest, lines 139-184: up to the call of the composed chain.
\* pc: down (entering stage pos), call (the method is running), up (resuming
\* stage pos, pos = 0 being the caller of the chain), write (ctx returned).
\* registered: how many middlewares the server held when the frame arrived.
StartDispatch(c, data) ==
  LET request == decodeDubboRequest(data)
      service == matchService(serviceMap, request)
      group == IF request.group = ABSENT THEN "" ELSE request.group
      d == [conn |-> c, request |-> request, chain |-> <<>>, pos |-> 0,
            pc |-> "write", exc |-> NULL, trace |-> <<>>, calls |-> <<>>,
            registered |-> Len(middlewares)]
  IN IF service = NoService
     THEN d @@ [NewContext EXCEPT
                  !.status = SERVICE_NOT_FOUND,
                  !.err = NotFoundError(request.path, request.methodName, group,
                                        request.version)]
     ELSE [d EXCEPT !.chain = middlewares, !.pos = 1, !.pc = "down"] @@ NewContext

\* HeartBeat.emit: the session records the activity.
HeartBeatEmit(stamps, c, now) == [stamps EXCEPT ![c] = now]

\* The subscriber returning on a heartbeat without heartbeat.emit().
DeliverNoEmit(c, data) ==
  /\ conn[c] = "open"
  /\ clock' = clock + 1
  /\ delivered' = Append(delivered, [conn |-> c, kind |-> data.kind])
  /\ IF isHeartBeat(data)
     THEN UNCHANGED <<hb, inflight>>
     ELSE /\ inflight' = ((clock + 1) :> StartDispatch(c, data)) @@ inflight
          /\ UNCHANGED hb
  /\ UNCHANGED <<conn, wire>>
  /\ UNCHANGED <<services, serviceMap, published, middlewares, useCall>>
  /\ UNCHANGED bootVars

\* The subscriber of DecodeBuffer, lines 120-128: one frame is delivered.
Deliver(c, data) ==
  /\ conn[c] = "open"
  /\ clock' = clock + 1
  /\ delivered' = Append(delivered, [conn |-> c, kind |-> data.kind])
  /\ IF isHeartBeat(data)
     THEN /\ hb' = HeartBeatEmit(hb, c, clock + 1)
          /\ UNCHANGED inflight
     ELSE /\ inflight' = ((clock + 1) :> StartDispatch(c, data)) @@ inflight
          /\ UNCHANGED hb
  /\ UNCHANGED <<conn, wire>>
  /\ UNCHANGED <<services, serviceMap, published, middlewares, useCall>>
  /\ UNCHANGED bootVars

\* DecodeBuffer handing every decoded frame to the subscriber as it arrives.
PullsEagerly(c) == TRUE

\* DecodeBuffer (the frame-demultiplexer): its sequence of frames is lazy, the
\* next frame of a connection is pulled when the subscriber's cycle for the
\* previous one has ended.
Pulls(c) == \A id \in DOMAIN inflight : inflight[id].conn /= c

\* A compose that goes on to the next stage when a middleware returns without
\* having called next().
EnterStageGoesOn(d) ==
  LET i == d.pos
      k == d.chain[i]
  IN IF k = "throwBefore"
     THEN [d EXCEPT !.trace = Append(@, <<"throw", i>>), !.exc = MwError(i),
                    !.pc = "up", !.pos = i - 1]
     ELSE [d EXCEPT !.trace = Append(@, <<"pre", i>>), !.pos = i + 1]

\* koa-compose's dispatch(i) for a registered middleware: the stage runs up to
\* its call of next(), its throw or its return.
EnterStage(d) ==
  LET i == d.pos
      k == d.chain[i]
  IN IF CallsNext(k)
     THEN [d EXCEPT !.trace = Append(@, <<"pre", i>>), !.pos = i + 1]
     ELSE IF k = "throwBefore"
     THEN [d EXCEPT !.trace = Append(@, <<"throw", i>>), !.exc = MwError(i),
                    !.pc = "up", !.pos = i - 1]
     ELSE [d EXCEPT !.trace = Append(@, <<"pre", i>>), !.pc = "up", !.pos = i - 1]

\* handleRequest applying the method to the request's arguments alone.
InvokeMethodNoCtx(id, d) ==
  [d EXCEPT !.status = OK,
            !.calls = Append(@, d.request.args),
            !.trace = Append(@, <<"invoke", d.pos>>),
            !.pc = "call"]

\* handleRequest, lines 161-166: the status is set and the method applied.
InvokeMethod(id, d) ==
  [d EXCEPT !.status = OK,
            !.calls = Append(@, Append(d.request.args, CtxRef(id))),
            !.trace = Append(@, <<"invoke", d.pos>>),
            !.pc = "call"]

\* What method.apply(service, args) settles to: hello is
\* (name, ctx) => "hi " + name, boom throws, raw returns a function.
Apply(kind, methodName, args) ==
  IF kind = "greet"
  THEN [threw |-> FALSE, value |-> "hi " \o (IF args = <<>> THEN ABSENT ELSE Head(args))]
  ELSE IF kind = "throws" THEN [threw |-> TRUE, value |-> AppError(methodName)]
  ELSE [threw |-> FALSE, value |-> NonHessianValue]

checkRetValHessian(res) == res /= NonHessianValue

\* handleRequest marking a failed invocation as a server error.
MethodSettlesServerError(d) ==
  LET r == d.request
      service == serviceMap[r.path]
      out == Apply(service.methods[r.methodName], r.methodName, d.calls[Len(d.calls)])
      res == IF out.threw THEN NULL ELSE out.value
      err == IF out.threw THEN out.value
             ELSE IF ~checkRetValHessian(res) THEN NotHessianError(r.path, r.methodName)
             ELSE NULL
  IN [d EXCEPT !.res = res, !.err = err, !.pc = "up", !.pos = Len(d.chain),
               !.status = IF err /= NULL THEN SERVER_ERROR ELSE @]

\* handleRequest without its try/catch: the method's error leaves the stage.
MethodSettlesRethrow(d) ==
  LET r == d.request
      service == serviceMap[r.path]
      out == Apply(service.methods[r.methodName], r.methodName, d.calls[Len(d.calls)])
      res == IF out.threw THEN NULL ELSE out.value
      err == IF out.threw THEN out.value
             ELSE IF ~checkRetValHessian(res) THEN NotHessianError(r.path, r.methodName)
             ELSE NULL
  IN [d EXCEPT !.res = res, !.exc = err, !.pc = "up", !.pos = Len(d.chain)]

\* handleRequest, lines 166-179: the method settles, ctx.body = {res, err}.
MethodSettles(d) ==
  LET r == d.request
      service == serviceMap[r.path]
      out == Apply(service.methods[r.methodName], r.methodName, d.calls[Len(d.calls)])
      res == IF out.threw THEN NULL ELSE out.value
      err == IF out.threw THEN out.value
             ELSE IF ~checkRetValHessian(res) THEN NotHessianError(r.path, r.methodName)
             ELSE NULL
  IN [d EXCEPT !.res = res, !.err = err, !.pc = "up", !.pos = Len(d.chain)]

\* A middleware's await next() settles: it runs on, throws, or lets the
\* rejection through.
ResumeStage(d) ==
  LET i == d.pos
      k == d.chain[i]
  IN IF d.exc /= NULL
     THEN IF k = "catch"
          THEN [d EXCEPT !.trace = Append(@, <<"catch", i>>), !.exc = NULL, !.pos = i - 1]
          ELSE [d EXCEPT !.pos = i - 1]
     ELSE IF k = "throwAfter"
          THEN [d EXCEPT !.trace = Append(@, <<"throw", i>>), !.exc = MwError(i),
                         !.pos = i - 1]
          ELSE [d EXCEPT !.trace = Append(@, <<"post", i>>), !.pos = i - 1]

\* The catch of lines 188-192 setting the status and dropping the error.
SettleChainStatusOnly(d) ==
  IF d.exc /= NULL
  THEN [d EXCEPT !.status = SERVER_ERROR, !.pc = "write"]
  ELSE [d EXCEPT !.pc = "write"]

\* invokeComposeChainRequest, lines 186-193: fn(ctx) has settled.
SettleChain(d) ==
  IF d.exc /= NULL
  THEN [d EXCEPT !.status = SERVER_ERROR, !.err = d.exc, !.pc = "write"]
  ELSE [d EXCEPT !.pc = "write"]

\* The dispatches of all connections taking their steps one after the other,
\* the oldest first.
StepOldestFirst(id) ==
  /\ id \in DOMAIN inflight
  /\ \A other \in DOMAIN inflight : id <= other
  /\ LET d == inflight[id]
     IN /\ d.pc /= "write"
        /\ inflight' =
             [inflight EXCEPT ![id] =
                IF d.pc = "down" /\ d.pos <= Len(d.chain) THEN EnterStage(d)
                ELSE IF d.pc = "down" THEN InvokeMethod(id, d)
                ELSE IF d.pc = "call" THEN MethodSettles(d)
                ELSE IF d.pos >= 1 THEN ResumeStage(d)
                ELSE SettleChain(d)]
  /\ UNCHANGED <<conn, hb, wire, clock, delivered>>
  /\ UNCHANGED <<services, serviceMap, published, middlewares, useCall>>
  /\ UNCHANGED bootVars

\* One step of the dispatch of frame id.
Step(id) ==
  /\ id \in DOMAIN inflight
  /\ LET d == inflight[id]
     IN /\ d.pc /= "write"
        /\ inflight' =
             [inflight EXCEPT ![id] =
                IF d.pc = "down" /\ d.pos <= Len(d.chain) THEN EnterStage(d)
                ELSE IF d.pc = "down" THEN InvokeMethod(id, d)
                ELSE IF d.pc = "call" THEN MethodSettles(d)
                ELSE IF d.pos >= 1 THEN ResumeStage(d)
                ELSE SettleChain(d)]
  /\ UNCHANGED <<conn, hb, wire, clock, delivered>>
  /\ UNCHANGED <<services, serviceMap, published, middlewares, useCall>>
  /\ UNCHANGED bootVars

\* new DubboResponseEncoder(ctx).encode()
Encode(id, d) == [requestId |-> id, status |-> d.status, res |-> d.res, err |-> d.err]

\* A subscriber writing to the socket of the connection that was last heard of.
WriteResponseToLatest(id) ==
  /\ id \in DOMAIN inflight
  /\ LET d == inflight[id]
         latest == delivered[Len(delivered)].conn
     IN /\ d.pc = "write"
        /\ hb' = [hb EXCEPT ![d.conn] = clock]
        /\ wire' = IF conn[latest] = "open"
                    THEN [wire EXCEPT ![latest] = Append(@, Encode(id, d))]
                    ELSE wire
  /\ inflight' = [i \in DOMAIN inflight \ {id} |-> inflight[i]]
  /\ UNCHANGED <<conn, clock, delivered>>
  /\ UNCHANGED <<services, serviceMap, published, middlewares, useCall>>
  /\ UNCHANGED bootVars

\* A subscriber that ends the socket after the response of a failed request.
WriteResponseEndOnError(id) ==
  /\ id \in DOMAIN inflight
  /\ LET d == inflight[id]
     IN /\ d.pc = "write"
        /\ hb' = [hb EXCEPT ![d.conn] = clock]
        /\ wire' = IF conn[d.conn] = "open"
                    THEN [wire EXCEPT ![d.conn] = Append(@, Encode(id, d))]
                    ELSE wire
        /\ conn' = IF conn[d.conn] = "open" /\ d.err /= NULL
                    THEN [conn EXCEPT ![d.conn] = "destroyed"]
                    ELSE conn
  /\ inflight' = [i \in DOMAIN inflight \ {id} |-> inflight[i]]
  /\ UNCHANGED <<clock, delivered>>
  /\ UNCHANGED <<services, serviceMap, published, middlewares, useCall>>
  /\ UNCHANGED bootVars

\* handleSocketRequest, lines 128-130: the awaited ctx arrives and is written.
\* A destroyed socket takes no data.
WriteResponse(id) ==
  /\ id \in DOMAIN inflight
  /\ LET d == inflight[id]
     IN /\ d.pc = "write"
        /\ hb' = [hb EXCEPT ![d.conn] = clock]
        /\ wire' = IF conn[d.conn] = "open"
                    THEN [wire EXCEPT ![d.conn] = Append(@, Encode(id, d))]
                    ELSE wire
  /\ inflight' = [i \in DOMAIN inflight \ {id} |-> inflight[i]]
  /\ UNCHANGED <<conn, clock, delivered>>
  /\ UNCHANGED <<services, serviceMap, published, middlewares, useCall>>
  /\ UNCHANGED bootVars

\* ------------------------------------------------------ specification

\* The constructor, lines 54-76: listen() has been called.
Init ==
  /\ services \in ServiceLists
  /\ serviceMap = <<>>
  /\ middlewares = <<>>
  /\ server = "none"
  /\ listenPending = TRUE
  /\ retryNum = MaxRetry
  /\ retryTimer = FALSE
  /\ fatal = FALSE
  /\ fails = 0
  /\ closeCalled = FALSE
  /\ published = <<>>
  /\ useCall = [fn |-> NULL, threw |-> "none"]
  /\ conn = [c \in Conns |-> "none"]
  /\ hb = [c \in Conns |-> 0]
  /\ wire = [c \in Conns |-> <<>>]
  /\ clock = 0
  /\ delivered = <<>>
  /\ inflight = <<>>

\* The whole server: the bootstrap and its retries, close, two connections
\* with their heartbeats, a short middleware list.
Next ==
  \/ ListenSuccess
  \/ ListenError
  \/ RetryFire
  \/ Close
  \/ \E fn \in ServerMwKinds : Len(middlewares) < MaxMw /\ Use(fn)
  \/ \E c \in Conns : Accept(c)
  \/ \E c \in Conns : HeartbeatTimeout(c)
  \/ \E c \in Conns, data \in Frames :
        clock < MaxFrames /\ Pulls(c) /\ Deliver(c, data)
  \/ \E id \in 1..MaxFrames : Step(id)
  \/ \E id \in 1..MaxFrames : WriteResponse(id)

Spec == Init /\ [][Next]_vars

\* One dispatch at a time on one connection of a bound server, every kind of
\* middleware in every order.
DispatchNext ==
  \/ ListenSuccess
  \/ \E fn \in MwKinds \cup NonCallables :
        /\ fn \in MwKinds => Len(middlewares) < MaxChain
        /\ inflight = <<>>
        /\ Use(fn)
  \/ Accept("c1")
  \/ \E data \in DispatchFrames :
        clock < MaxDispatches /\ inflight = <<>> /\ Deliver("c1", data)
  \/ \E id \in 1..MaxDispatches : Step(id)
  \/ \E id \in 1..MaxDispatches : WriteResponse(id)

DispatchSpec == Init /\ [][DispatchNext]_vars

\* Route resolution alone: every request against every registration.
RouteNext ==
  \/ ListenSuccess
  \/ Accept("c1")
  \/ \E r \in AllRequests : clock < MaxRouted /\ Deliver("c1", RequestFrame(r))
  \/ \E id \in 1..MaxRouted : Step(id)
  \/ \E id \in 1..MaxRouted : WriteResponse(id)

RouteSpec == Init /\ [][RouteNext]_vars

\* The traffic of a bound server: two connections, their frames in flight
\* together, middlewares registered while requests are dispatched.
TrafficNext ==
  \/ ListenSuccess
  \/ \E fn \in ServerMwKinds : Len(middlewares) < MaxTrafficMw /\ Use(fn)
  \/ \E c \in Conns : Accept(c)
  \/ \E c \in Conns : HeartbeatTimeout(c)
  \/ \E c \in Conns, data \in TrafficFrames :
        clock < MaxTraffic /\ Pulls(c) /\ Deliver(c, data)
  \/ \E id \in 1..MaxTraffic : Step(id)
  \/ \E id \in 1..MaxTraffic : WriteResponse(id)

TrafficSpec == Init /\ [][TrafficNext]_vars

\* -------------------------------------------------------------- claims

Dispatches == {inflight[id] : id \in DOMAIN inflight}
Returned(d) == d.pc = "write"

WithDefault(v, dflt) == IF v = ABSENT THEN dflt ELSE v

\* The descriptors that stand registered for an interface: the last one the
\* server was constructed with.
RegisteredFor(path) ==
  {services[i] : i \in {k \in DOMAIN services :
                          /\ services[k].dubboInterface = path
                          /\ \A j \in DOMAIN services :
                               j > k => services[j].dubboInterface /= path}}

\* The descriptors a request is routed to: registered for its path, defining
\* its method, of its group and of its version.
RoutesOf(r) ==
  {s \in RegisteredFor(r.path) :
     /\ r.methodName \in DOMAIN s.methods
     /\ WithDefault(s.group, "") = WithDefault(r.group, "")
     /\ WithDefault(s.version, "0.0.0") = r.version}
HasRoute(r) == RoutesOf(r) /= {}

\* C1: a request with no matching registered descriptor is answered
\* SERVICE_NOT_FOUND with an error in the body, at once: no middleware and no
\* service method runs for it.
C1_NoRouteNotFound ==
  \A d \in Dispatches :
    ~HasRoute(d.request) =>
      /\ Returned(d)
      /\ d.status = SERVICE_NOT_FOUND
      /\ d.err /= NULL
      /\ d.trace = <<>>
      /\ d.calls = <<>>

C1_Witness ==
  \E d \in Dispatches :
    /\ ~HasRoute(d.request)
    /\ d.request.path \in DOMAIN serviceMap
    /\ Len(middlewares) = MaxChain
    /\ Returned(d)

\* What the registered method returns for a request, when it returns.
MethodKind(r) == (CHOOSE s \in RoutesOf(r) : TRUE).methods[r.methodName]
FirstArgument(id, r) == IF r.args = <<>> THEN CtxRef(id) ELSE r.args[1]

AllCallNext(d) == \A i \in DOMAIN d.chain : CallsNext(d.chain[i])
NoThrow(d) == \A j \in DOMAIN d.trace : d.trace[j][1] /= "throw"

InvokedOnce(id) ==
  inflight[id].calls = <<inflight[id].request.args \o <<CtxRef(id)>> >>

ResultReturned(id) ==
  MethodKind(inflight[id].request) = "greet" =>
    /\ inflight[id].status = OK
    /\ inflight[id].res = "hi " \o FirstArgument(id, inflight[id].request)

\* C2 as claimed: a routed request whose middlewares all call next has had its
\* method invoked once with the arguments and then the context, and a valid
\* return value is the result of a context of status OK.
C2_Original ==
  \A id \in DOMAIN inflight :
    (Returned(inflight[id]) /\ HasRoute(inflight[id].request) /\ AllCallNext(inflight[id])) =>
      InvokedOnce(id) /\ ResultReturned(id)

\* C2 amended: the method is invoked once with the arguments and then the
\* context whenever every middleware calls next; the status is OK and the
\* result the valid return value when moreover no middleware throws.
C2_InvokedThenResult ==
  \A id \in DOMAIN inflight :
    (Returned(inflight[id]) /\ HasRoute(inflight[id].request) /\ AllCallNext(inflight[id])) =>
      /\ InvokedOnce(id)
      /\ NoThrow(inflight[id]) => ResultReturned(id)

C2_Witness ==
  \E id \in DOMAIN inflight :
    /\ Returned(inflight[id])
    /\ Len(inflight[id].chain) = MaxChain
    /\ AllCallNext(inflight[id])
    /\ inflight[id].request.args = <<"world">>
    /\ inflight[id].status = OK
    /\ inflight[id].res = "hi world"

\* The throws of a dispatch, and whether an outer middleware caught one.
Throws(d) == {j \in DOMAIN d.trace : d.trace[j][1] = "throw"}
Caught(d, j) == \E k \in DOMAIN d.trace : k > j /\ d.trace[k][1] = "catch"

ThrowEndsDispatch(d, j) ==
  /\ j = Len(d.trace)
  /\ Returned(d) => d.status = SERVER_ERROR /\ d.err = MwError(d.trace[j][2])

\* C3 as claimed: once a middleware has thrown no stage runs any more, and
\* the context comes back SERVER_ERROR with the thrown value as its error.
C3_Original ==
  \A d \in Dispatches : \A j \in Throws(d) : ThrowEndsDispatch(d, j)

\* C3 amended: the same of a throw that no earlier-registered middleware catches.
C3_UncaughtThrow ==
  \A d \in Dispatches : \A j \in Throws(d) : ~Caught(d, j) => ThrowEndsDispatch(d, j)

C3_Witness ==
  \E d \in Dispatches :
    /\ Returned(d)
    /\ d.calls /= <<>>
    /\ \E j \in Throws(d) : d.chain[d.trace[j][2]] = "throwAfter" /\ d.trace[j][2] = 1
    /\ Len(d.chain) = MaxChain
    /\ d.status = SERVER_ERROR

\* C10: a returned context holds exactly one of result and error, and one of
\* the three statuses.
C10_OneOfResultAndError ==
  \A d \in Dispatches :
    Returned(d) =>
      /\ d.status \in {OK, SERVICE_NOT_FOUND, SERVER_ERROR}
      /\ (d.res /= NULL) /= (d.err /= NULL)

\* The scenario's descriptor and request: com.foo.Bar with a method hello and
\* no group or version; hello("world") with an attachment of the path alone.
ScenarioRegistered ==
  RegisteredFor(Bar) = {Normalize(BarDefault)}
ScenarioRequest == Req(Bar, "hello", ABSENT, ABSENT, <<"world">>)

\* C4: the scenario's request is answered OK with the result "hi world".
C4_ScenarioServed ==
  \A d \in Dispatches :
    (ScenarioRegistered /\ d.request = ScenarioRequest /\ Returned(d)) =>
      d.status = OK /\ d.res = "hi world"

\* C5: a request is routed if and only if a descriptor is registered for its
\* path, defines its method, and has its group ("" when either names none)
\* and its version ("0.0.0" when the descriptor names none); any other request
\* is answered SERVICE_NOT_FOUND.
C5_RoutedIffAllFourMatch ==
  \A d \in Dispatches :
    HasRoute(d.request) <=> d.status /= SERVICE_NOT_FOUND

C5_Witness ==
  /\ ScenarioRegistered
  /\ \E d \in Dispatches :
       /\ d.request = Req(Bar, "hello", "v2", "0.0.0", <<"world">>)
       /\ Returned(d)
       /\ d.status = SERVICE_NOT_FOUND

\* The frames of a connection that were heartbeats.
Heartbeats == {id \in DOMAIN delivered : delivered[id].kind = "heartbeat"}
Answered(c) == {wire[c][k].requestId : k \in DOMAIN wire[c]}

C7_RetryUntilExhausted ==
  /\ [](/\ fatal <=> fails > MaxRetry
        /\ fatal => ~listenPending /\ ~retryTimer
        /\ (server = "failed" /\ fails <= MaxRetry) => listenPending \/ retryTimer)
  /\ [][fatal => /\ ~listenPending' /\ ~retryTimer'
                  /\ server' = server /\ fails' = fails /\ fatal']_vars

C7_Witness == fatal /\ fails = MaxRetry + 1 /\ server = "failed"

IsCallable(fn) == fn \in MwKinds

\* C8: a use() of a non-callable throws a TypeError and changes nothing; a
\* use() of a callable appends it as the last middleware and changes nothing
\* else. Nothing but use() changes the list.
C8_UseAppendsOrThrows ==
  [][(useCall' /= useCall \/ middlewares' /= middlewares) =>
       /\ IF IsCallable(useCall'.fn)
          THEN /\ useCall'.threw = "none"
               /\ middlewares' = Append(middlewares, useCall'.fn)
          ELSE /\ useCall'.threw = "TypeError"
               /\ middlewares' = middlewares
       /\ UNCHANGED <<services, serviceMap, published>>
       /\ UNCHANGED bootVars
       /\ UNCHANGED connVars]_vars

C8_Witness ==
  /\ useCall.threw = "TypeError"
  /\ Len(middlewares) = MaxChain

\* C9: once close() has stopped a listening server none of the connections
\* accepted before is open any more. (A connection is accepted only while
\* the server listens.)
C9_CloseReleasesConnections ==
  server = "closed" => \A c \in Conns : conn[c] /= "open"

\* The error handleRequest records for a method that fails.
Invoked(d) == d.calls /= <<>>
Settled(d) == Invoked(d) /\ d.pc \in {"up", "write"}
MethodFault(r) ==
  IF MethodKind(r) = "throws" THEN AppError(r.methodName)
  ELSE IF MethodKind(r) = "nonHessian" THEN NotHessianError(r.path, r.methodName)
  ELSE NULL

\* C11: when the invoked method throws, or returns a value that fails the
\* validation, the fault is the body's error from the moment the method
\* settles, and with no middleware throwing the context comes back with that
\* error and the status OK, never SERVER_ERROR.
C11_HandlerFaultKeepsOK ==
  \A d \in Dispatches :
    (Settled(d) /\ MethodFault(d.request) /= NULL /\ NoThrow(d)) =>
      /\ d.err = MethodFault(d.request)
      /\ d.status = OK
      /\ d.exc = NULL

C11_Witness ==
  \E d \in Dispatches :
    /\ Returned(d)
    /\ Invoked(d)
    /\ MethodKind(d.request) = "nonHessian"
    /\ Len(d.chain) = MaxChain
    /\ d.status = OK
    /\ d.err = NotHessianError(Bar, "raw")

\* The frames of a connection, its request frames, and its dispatches under way.
FramesOn(c) == {id \in DOMAIN delivered : delivered[id].conn = c}
RequestsOn(c) == {id \in FramesOn(c) : delivered[id].kind = "request"}
InFlightOn(c) == {id \in DOMAIN inflight : inflight[id].conn = c}

C13_ConnectionsIndependent ==
  \A c \in Conns :
    /\ (conn[c] = "open" /\ InFlightOn(c) = {}) =>
         /\ Pulls(c)
         /\ \A data \in TrafficFrames : ENABLED Deliver(c, data)
    /\ \A id \in InFlightOn(c) :
         IF Returned(inflight[id]) THEN ENABLED WriteResponse(id) ELSE ENABLED Step(id)

\* A method of the first connection has not settled, and a request that
\* arrived later on the other connection is answered.
C13_Witness ==
  \E c1 \in Conns, c2 \in Conns :
    /\ c1 /= c2
    /\ \E id \in InFlightOn(c1) :
         /\ inflight[id].pc = "call"
         /\ \E k \in DOMAIN wire[c2] : wire[c2][k].requestId > id

\* The events of a dispatch's trace: a stage is entered (its code before
\* next() runs, the terminal stage invokes the method) or resumed (its code
\* after next() runs).
IsEntry(d, j) ==
  \/ d.trace[j][1] \in {"pre", "invoke"}
  \/ d.trace[j][1] = "throw" /\ d.chain[d.trace[j][2]] = "throwBefore"
IsResumption(d, j) == ~IsEntry(d, j)
OnionTrace(n) ==
  [j \in 1..(2 * n + 1) |->
     IF j <= n THEN <<"pre", j>>
     ELSE IF j = n + 1 THEN <<"invoke", n + 1>>
     ELSE <<"post", 2 * n + 2 - j>>]

\* C14: the stages are entered in the order of registration, the terminal
\* stage after all of them, and resumed in the reverse order, each resumed
\* stage being one that was entered; after a middleware that returns without
\* calling next() no later stage and no method runs; a returned dispatch of
\* middlewares that all run on around next() has the full onion trace.
C14_OnionOrder ==
  \A d \in Dispatches :
    /\ \A j \in DOMAIN d.trace :
         /\ IsEntry(d, j) => d.trace[j][2] = j
         /\ d.trace[j][1] = "invoke" => j = Len(d.chain) + 1
         /\ IsResumption(d, j) =>
              /\ \A k \in DOMAIN d.trace : k > j =>
                   IsResumption(d, k) /\ d.trace[k][2] < d.trace[j][2]
              /\ \E k \in 1..(j - 1) : d.trace[k] = <<"pre", d.trace[j][2]>>
    /\ \A i \in DOMAIN d.chain :
         d.chain[i] = "noNext" =>
           /\ d.calls = <<>>
           /\ \A j \in DOMAIN d.trace : d.trace[j][2] <= i
    /\ (Returned(d) /\ HasRoute(d.request)
          /\ \A i \in DOMAIN d.chain : d.chain[i] = "pass") =>
         d.trace = OnionTrace(Len(d.chain))

C14_Witness ==
  \E d \in Dispatches :
    /\ Returned(d)
    /\ d.chain = [i \in 1..MaxChain |-> "pass"]
    /\ Len(d.trace) = 2 * MaxChain + 1
    /\ d.trace[Len(d.trace)] = <<"post", 1>>

\* C15: the status is SERVER_ERROR only on a returned context of a routed
\* request whose composed chain was left by an error: one that a middleware
\* threw and no middleware caught. A request with no route, a method that
\* throws and a return value that fails the validation never give it.
C15_ServerErrorOnlyEscaped ==
  \A d \in Dispatches :
    d.status = SERVER_ERROR =>
      /\ Returned(d)
      /\ HasRoute(d.request)
      /\ d.exc /= NULL
      /\ \E j \in Throws(d) : ~Caught(d, j) /\ d.exc = MwError(d.trace[j][2])

\* The method threw, and a middleware threw after it.
C15_Witness ==
  \E d \in Dispatches :
    /\ d.status = SERVER_ERROR
    /\ Invoked(d)
    /\ MethodKind(d.request) = "throws"
    /\ d.err = MwError(1)

\* The responses of a connection that report an error.
ErrorResponses(c) == {k \in DOMAIN wire[c] : wire[c][k].err /= NULL}

\* C16: a request that fails (no route, a throwing method, an error leaving
\* the chain) does not end its connection. An open connection stops being
\* open only in a step of its own that touches no dispatch and no socket
\* data, the heartbeat timeout destroying it; the step that ends a dispatch on
\* an open connection leaves it open and writes the response; and an open
\* connection that has answered with an error takes its next frame.
C16_ErrorsKeepConnection ==
  /\ [][\A c \in Conns :
          /\ (conn[c] = "open" /\ conn'[c] /= "open") =>
               /\ conn'[c] = "destroyed"
               /\ UNCHANGED <<hb, wire, clock, delivered, inflight>>
          /\ \A id \in InFlightOn(c) :
               (id \notin DOMAIN inflight' /\ conn[c] = "open") =>
                  /\ conn'[c] = "open"
                  /\ wire'[c] = Append(wire[c], Encode(id, inflight[id]))]_vars
  /\ [](\A c \in Conns :
          (conn[c] = "open" /\ ErrorResponses(c) /= {} /\ InFlightOn(c) = {}) =>
             \A data \in TrafficFrames : ENABLED Deliver(c, data))

\* A connection answered a request with SERVER_ERROR, then a later one, and is open.
C16_Witness ==
  \E c \in Conns :
    /\ conn[c] = "open"
    /\ Len(wire[c]) = 2
    /\ wire[c][1].status = SERVER_ERROR

\* The entry a publication holds for a descriptor.
RegistryEntry(s) ==
  <<s.dubboInterface,
    "dubbo%3A%2F%2F" \o s.dubboInterface
      \o "%3Fgroup%3D" \o (IF s.group \in {ABSENT, ""} THEN "" ELSE s.group)
      \o "%26version%3D" \o (IF s.version \in {ABSENT, ""} THEN "0.0.0" ELSE s.version)>>
BindSucceeds == listenPending /\ ~listenPending' /\ server' = "listening"
BindFails == listenPending /\ ~listenPending' /\ server' = "failed"

\* C17: a bind that succeeds resets the retry and makes one call to the
\* registry, of type "provider", with one (interface, encoded URL) entry for
\* each service of the list, in the list's order; a bind that fails makes
\* none, and nothing but a successful bind makes one.
C17_PublishOncePerBind ==
  [][/\ BindSucceeds =>
          /\ retryNum' = MaxRetry
          /\ fails' = 0
          /\ published' =
               Append(published,
                      [type |-> "provider",
                       services |-> [i \in DOMAIN services |-> RegistryEntry(services[i])]])
     /\ BindFails => published' = published
     /\ published' /= published => BindSucceeds]_vars

\* The bind has succeeded: both descriptors of the list are published.
C17_Witness ==
  /\ server = "listening"
  /\ retryNum = MaxRetry
  /\ Len(published) = 1
  /\ Len(published[1].services) = 2
  /\ published[1].services[2] =
       <<Bar, "dubbo%3A%2F%2Fcom.foo.Bar%3Fgroup%3Dv2%26version%3D1.0.0">>

\* Stage i of a dispatch has run: it was entered.
Ran(d, i) == \E j \in DOMAIN d.trace : d.trace[j][2] = i
ChainKept ==
  \A id \in DOMAIN inflight \cap DOMAIN inflight' :
    inflight'[id].chain = inflight[id].chain

\* C18 as claimed: the chain of a dispatch under way never changes, and a
\* returned dispatch has run every middleware that was registered when its
\* frame arrived.
C18_Original ==
  /\ [][ChainKept]_vars
  /\ [](\A d \in Dispatches :
          Returned(d) => \A i \in 1..d.registered : Ran(d, i))

\* C18 amended: the chain of a dispatch under way never changes; the chain of
\* a routed request is the list of middlewares registered when its frame
\* arrived, and when it has returned each of them has run whose predecessors
\* all call next(); a request with no route has no chain.
C18_ChainComposedAtDispatch ==
  /\ [][ChainKept]_vars
  /\ [](\A d \in Dispatches :
          /\ d.registered <= Len(middlewares)
          /\ d.chain = IF HasRoute(d.request)
                       THEN SubSeq(middlewares, 1, d.registered)
                       ELSE <<>>
          /\ Returned(d) =>
               \A i \in DOMAIN d.chain :
                 (\A k \in 1..(i - 1) : CallsNext(d.chain[k])) => Ran(d, i))

\* A middleware was registered while a method was running: that dispatch
\* keeps its empty chain, the one of a later frame has run the middleware.
C18_Witness ==
  \E id1 \in DOMAIN inflight, id2 \in DOMAIN inflight :
    /\ id1 < id2
    /\ inflight[id1].pc = "call"
    /\ inflight[id1].chain = <<>>
    /\ inflight[id2].chain = middlewares
    /\ Len(middlewares) = MaxTrafficMw
    /\ Returned(inflight[id2])
    /\ Ran(inflight[id2], 1)

\* The dispatches that end in a step, and the requests whose dispatch has ended.
Ending == DOMAIN inflight \ DOMAIN inflight'
Completed(c) == RequestsOn(c) \ DOMAIN inflight

\* C19: the step that ends the dispatch of a frame makes the one write of its
\* response, the encoding of that frame's own context, to the socket of the
\* connection the frame arrived on (a socket destroyed in the meantime takes
\* no data), and no other step writes. So every response on a socket is that
\* of a completed request of its connection, none is there twice, and an open
\* connection holds one for each of its completed requests.
C19_OneWriteToOwnSocket ==
  /\ [][/\ \A id \in Ending :
            /\ Returned(inflight[id])
            /\ wire' = IF conn[inflight[id].conn] = "open"
                        THEN [wire EXCEPT ![inflight[id].conn] =
                                            Append(@, Encode(id, inflight[id]))]
                        ELSE wire
        /\ wire' /= wire => Ending /= {}]_vars
  /\ [](\A c \in Conns :
          /\ \A k \in DOMAIN wire[c] : wire[c][k].requestId \in Completed(c)
          /\ \A k1 \in DOMAIN wire[c], k2 \in DOMAIN wire[c] :
               wire[c][k1].requestId = wire[c][k2].requestId => k1 = k2
          /\ conn[c] = "open" => Completed(c) \subseteq Answered(c))

\* Two connections, one request each, the second answered first: each socket
\* holds the response of its own request.
C19_Witness ==
  \E c1 \in Conns, c2 \in Conns :
    /\ c1 /= c2
    /\ wire[c1] = <<[requestId |-> 1, status |-> OK, res |-> "hi world", err |-> NULL]>>
    /\ Len(wire[c2]) = 1
    /\ wire[c2][1].requestId = 2
    /\ wire[c2][1].err = AppError("boom")
    /\ hb[c2] <= hb[c1]

\* C20: once close() has been called the server is not listening, and no
\* later step binds it or publishes its services.
C20_ClosedStaysUnbound ==
  /\ [](closeCalled => server /= "listening")
  /\ [][closeCalled => (server' = "listening" => server = "listening")
                        /\ published' = published]_vars

====
